---- MODULE Spec2Model ----
(***************************************************************************)
(* The VirtualBox back end of capstan (package vbox, src/util/util.go      *)
(* lines 37-227): LaunchVM, DeleteVM, StopVM and their helpers, run        *)
(* against a model of the hypervisor's registry, of the headless VM        *)
(* processes, of the console socket and of the detached copy goroutines.   *)
(* Every external command is one step whose outcome (success, could not    *)
(* be started, exited non-zero) the environment chooses.                   *)
(***************************************************************************)
EXTENDS Integers, Sequences, FiniteSets, TLC

VARIABLES
    goos,    \* runtime.GOOS of the build
    vms,     \* hypervisor registry: VM name -> machine definition or NoVM
    disks,   \* hypervisor media: set of [path, image]
    procs,   \* headless VM processes: set of [handle, name, state]
    tasks,   \* copy goroutines started so far: set of [call, src, dst, state]
    conns,   \* console connections: set of [id, state]
    pc,      \* per caller: position in the operation it runs
    op,      \* per caller: the operation it runs or ran last
    c,       \* per caller: the *VMConfig (or name) argument
    loc,     \* per caller: the local variables exists, err, i, j, conn, cmd
    log,     \* per caller: what the current call has done so far, in order
    ret,     \* per caller: what the last call returned
    fn       \* a pure function applied on its own: its inputs and its results

vars == <<goos, vms, disks, procs, tasks, conns, pc, op, c, loc, log, ret, fn>>

----------------------------------------------------------------------------
(* Bounds of the model *)

\* longest NatRules list of a config
MaxRules == 2

(* Program constants *)

\* for i := 0; i < 5; i++
MaxAttempts == 5
\* time.Sleep(500 * time.Millisecond)
SleepMs == 500

----------------------------------------------------------------------------
(* Inputs *)

Procs == {1, 2}
\* the callers of the sequential specification
SeqProcs == {1}

Names == {"vm1", "vm2"}
NameOrder == <<"vm1", "vm2">>
Dirs == {"d"}
Images == {"img"}
Memories == {512}
CpuCounts == {2}
\* nat.Rule values
Rules == { [GuestPort |-> "80", HostPort |-> "8080"],
           [GuestPort |-> "22", HostPort |-> "2222"] }

SeqsUpTo(S, n) == UNION { [1..k -> S] : k \in 0..n }

\* type VMConfig struct
VMConfig == [Name : Names, Dir : Dirs, Image : Images, Memory : Memories,
             Cpus : CpuCounts, NatRules : SeqsUpTo(Rules, MaxRules)]

NoConfig == [Name |-> ""]

----------------------------------------------------------------------------
(* Values *)

Nil == [kind |-> "nil"]
\* the error of exec.Cmd.Start or exec.Cmd.Output: the program could not run
StartError(prog) == [kind |-> "StartError", prog |-> prog]
\* the *exec.ExitError of exec.Cmd.Output
ExitError(prog) == [kind |-> "ExitError", prog |-> prog]
\* fmt.Errorf("VBoxManage %s", args)
Errorf(args) == [kind |-> "Errorf", prog |-> "VBoxManage", args |-> args]
\* the error of the n-th util.Connect of a call
ConnError(n) == [kind |-> "ConnError", attempt |-> n]

NoCmd == 0
NoConn == 0
NoVM == [kind |-> "NoVM"]
NoRet == [kind |-> "NoRet"]

\* what the environment makes of one external command
Outcomes == {"ok", "start", "exit"}

Event(kind, args, res) == [kind |-> kind, args |-> args, res |-> res]

----------------------------------------------------------------------------
(* Pure helpers *)

Digit(d) ==
    CASE d = 0 -> "0" [] d = 1 -> "1" [] d = 2 -> "2" [] d = 3 -> "3"
      [] d = 4 -> "4" [] d = 5 -> "5" [] d = 6 -> "6" [] d = 7 -> "7"
      [] d = 8 -> "8" [] d = 9 -> "9"

RECURSIVE FormatNat(_)
FormatNat(n) == IF n < 10 THEN Digit(n) ELSE FormatNat(n \div 10) \o Digit(n % 10)

\* strconv.FormatInt(n, 10) and strconv.Itoa(n)
FormatInt(n) == IF n < 0 THEN "-" \o FormatNat(0 - n) ELSE FormatNat(n)

Separator(os) == IF os = "windows" THEN "\\" ELSE "/"

RECURSIVE JoinFrom(_, _, _)
JoinFrom(os, elems, k) ==
    IF k > Len(elems) THEN ""
    ELSE IF k = Len(elems) THEN elems[k]
    ELSE elems[k] \o Separator(os) \o JoinFrom(os, elems, k + 1)

\* filepath.Join on non-empty, clean elements
Join(os, elems) == JoinFrom(os, elems, 1)

\* func (c *VMConfig) sockPath() string
sockPath(os, cfg) ==
    IF os = "windows"
    THEN "\\\\.\\pipe\\" \o cfg.Name
    ELSE Join(os, <<cfg.Dir, cfg.Name, cfg.Name \o ".sock">>)

\* func (c *VMConfig) storagePath() string
storagePath(os, cfg) == Join(os, <<cfg.Dir, cfg.Name, "disk.vdi">>)

\* the settings file createvm writes under --basefolder and registervm is given
vboxPath(os, dir, name) == Join(os, <<dir, name, name \o ".vbox">>)

\* natRule := fmt.Sprintf("guest%s,tcp,,%s,,%s", rule.GuestPort, rule.HostPort, rule.GuestPort)
\* the format "guest%s,tcp,,%s,,%s": its verbs, its commas and the text between
NatFormat == <<"guest", "%s", ",", "tcp", ",", ",", "%s", ",", ",", "%s">>

RECURSIVE SprintfFrom(_, _, _, _)
SprintfFrom(format, k, args, a) ==
    IF k > Len(format) THEN <<>>
    ELSE IF format[k] = "%s"
         THEN <<IF a <= Len(args) THEN args[a] ELSE "%!s(MISSING)">>
              \o SprintfFrom(format, k + 1, args, a + 1)
         ELSE <<format[k]>> \o SprintfFrom(format, k + 1, args, a)

\* fmt.Sprintf with %s verbs and string operands: the pieces of the result,
\* each operand copied as it is
Sprintf(format, args) == SprintfFrom(format, 1, args, 1)

RECURSIVE Str(_)
\* the text a sequence of pieces spells
Str(pieces) == IF pieces = <<>> THEN "" ELSE Head(pieces) \o Str(Tail(pieces))

\* a translation that takes the operands in the order host, guest, host
natRuleText_Swapped(rule) ==
    Sprintf(NatFormat, <<rule.HostPort, rule.GuestPort, rule.HostPort>>)

\* the pieces of natRule
natRuleText(rule) ==
    Sprintf(NatFormat, <<rule.GuestPort, rule.HostPort, rule.GuestPort>>)

natRule(rule) == Str(natRuleText(rule))

----------------------------------------------------------------------------
(* The inventory query: VBoxManage list vms and its parsing *)

Q == "\""

\* One line of the listing is a sequence of tokens; a double quote is always a
\* token of its own.  The hypervisor prints one line per registered machine.
ListLine(name) == <<Q, name, Q, " ", "{uuid}">>

RECURSIVE ListFrom(_, _)
ListFrom(reg, k) ==
    IF k > Len(NameOrder) THEN << <<>> >>
    ELSE IF reg[NameOrder[k]] # NoVM /\ reg[NameOrder[k]].registered
         THEN <<ListLine(NameOrder[k])>> \o ListFrom(reg, k + 1)
         ELSE ListFrom(reg, k + 1)

\* strings.Split(string(out), "\n") of the listing: the lines, then the empty
\* text after the last newline
ListOutput(reg) == ListFrom(reg, 1)

QuotePositions(line) == { k \in 1..Len(line) : line[k] = Q }

Min(S) == CHOOSE x \in S : \A y \in S : x <= y
Max(S) == CHOOSE x \in S : \A y \in S : x >= y

RECURSIVE Concat(_, _, _)
Concat(line, from, to) ==
    IF from > to THEN "" ELSE line[from] \o Concat(line, from + 1, to)

\* a match whose group stops at the first closing quote, as "(.*?)" would
FindStringSubmatch_Lazy(line) ==
    LET qs == QuotePositions(line) IN
    IF Cardinality(qs) < 2 THEN <<>>
    ELSE LET i == Min(qs)
             j == Min(qs \ {i})
         IN <<Concat(line, i, j), Concat(line, i + 1, j - 1)>>

\* regexp "\"(.*)\"" . FindStringSubmatch(line): leftmost match, greedy group
FindStringSubmatch(line) ==
    LET qs == QuotePositions(line) IN
    IF Cardinality(qs) < 2 THEN <<>>
    ELSE <<Concat(line, Min(qs), Max(qs)), Concat(line, Min(qs) + 1, Max(qs) - 1)>>

RECURSIVE ParseFrom(_, _)
ParseFrom(lines, k) ==
    IF k > Len(lines) THEN <<>>
    ELSE LET vm == FindStringSubmatch(lines[k]) IN
         IF Len(vm) > 0 THEN <<vm[2]>> \o ParseFrom(lines, k + 1)
         ELSE ParseFrom(lines, k + 1)

\* func vmList() ([]string, error), the parsing of a successful listing
vmList(lines) == ParseFrom(lines, 1)

\* func vmExists(vmName string) (bool, error), on a successful listing
vmExists(vmName, lines) ==
    \E k \in 1..Len(vmList(lines)) : vmList(lines)[k] = vmName

----------------------------------------------------------------------------
(* The hypervisor: what a successful management command does *)

FreshVM(file) ==
    [kind |-> "VM", file |-> file, registered |-> FALSE, ctl |-> FALSE,
     medium |-> "", nic |-> "", natpf |-> <<>>, hpet |-> "", uart |-> "",
     memory |-> "", cpus |-> "", userdata |-> FALSE]

\* a machine left by an earlier launch and changed by the user since
StaleVM(os, name) ==
    [kind |-> "VM", file |-> vboxPath(os, "d", name), registered |-> TRUE,
     ctl |-> TRUE, medium |-> Join(os, <<"d", name, "disk.vdi">>),
     nic |-> "nat,virtio", natpf |-> <<"guest1,tcp,,1,,1">>, hpet |-> "on",
     uart |-> "old.sock", memory |-> "64", cpus |-> "1", userdata |-> TRUE]

\* a machine left registered but half configured by an earlier failed launch
BrokenVM(os, name) ==
    [FreshVM(vboxPath(os, "d", name)) EXCEPT !.registered = TRUE]

Exists(reg, name) == name \in DOMAIN reg /\ reg[name] # NoVM
Usable(reg, name) == Exists(reg, name) /\ reg[name].registered
HasDisk(dsk, path) == \E d \in dsk : d.path = path

ModifyVM(vm, args) ==
    CASE args[3] = "--nic1"   -> [vm EXCEPT !.nic = args[4] \o "," \o args[6]]
      [] args[3] = "--natpf1" -> [vm EXCEPT !.natpf = Append(@, args[4])]
      [] args[3] = "--hpet"   -> [vm EXCEPT !.hpet = args[4]]
      [] args[3] = "--uart1"  -> [vm EXCEPT !.uart = args[8]]
      [] args[3] = "--memory" -> [vm EXCEPT !.memory = args[4]]
      [] args[3] = "--cpus"   -> [vm EXCEPT !.cpus = args[4]]
      [] OTHER -> vm

\* the registry after VBoxManage args exited with status 0
HvVms(os, reg, dsk, args) ==
    CASE args[1] = "createvm" ->
           IF args[3] \in DOMAIN reg /\ reg[args[3]] = NoVM
           THEN [reg EXCEPT ![args[3]] = FreshVM(vboxPath(os, args[5], args[3]))]
           ELSE reg
      [] args[1] = "registervm" ->
           [n \in DOMAIN reg |->
              IF reg[n] # NoVM /\ reg[n].file = args[2]
              THEN [reg[n] EXCEPT !.registered = TRUE] ELSE reg[n]]
      [] args[1] = "storagectl" ->
           IF Usable(reg, args[2])
           THEN [reg EXCEPT ![args[2]].ctl = TRUE] ELSE reg
      [] args[1] = "storageattach" ->
           IF Usable(reg, args[2]) /\ reg[args[2]].ctl /\ HasDisk(dsk, args[10])
           THEN [reg EXCEPT ![args[2]].medium = args[10]] ELSE reg
      [] args[1] = "modifyvm" ->
           IF Usable(reg, args[2])
           THEN [reg EXCEPT ![args[2]] = ModifyVM(@, args)] ELSE reg
      [] args[1] = "unregistervm" ->
           IF Exists(reg, args[2])
           THEN IF Len(args) >= 3 /\ args[3] = "--delete"
                THEN [reg EXCEPT ![args[2]] = NoVM]
                ELSE [reg EXCEPT ![args[2]].registered = FALSE]
           ELSE reg
      [] OTHER -> reg

\* the media after VBoxManage args exited with status 0
HvDisks(os, reg, dsk, args) ==
    CASE args[1] = "clonehd" ->
           IF HasDisk(dsk, args[3]) THEN dsk
           ELSE dsk \cup {[path |-> args[3], image |-> args[2]]}
      [] args[1] = "unregistervm" ->
           IF Exists(reg, args[2]) /\ Len(args) >= 3 /\ args[3] = "--delete"
           THEN { d \in dsk : d.path # reg[args[2]].medium }
           ELSE dsk
      [] OTHER -> dsk

\* the headless processes after VBoxManage args exited with status 0
HvProcs(prs, args) ==
    IF args[1] = "controlvm" /\ args[3] = "poweroff"
    THEN { IF pr.name = args[2] THEN [pr EXCEPT !.state = "off"] ELSE pr : pr \in prs }
    ELSE prs

----------------------------------------------------------------------------
(* The command executor *)

\* func VBoxManage(args ...string) error: the error it returns when the
\* environment makes `out` of the command
VBoxManage(args, out) ==
    IF out = "start" THEN StartError("VBoxManage")
    ELSE IF out = "exit" THEN Errorf(args)
    ELSE Nil

\* cmd.Output() of VBoxManage list vms in vmList
ListError(out) ==
    IF out = "start" THEN StartError("VBoxManage")
    ELSE IF out = "exit" THEN ExitError("VBoxManage")
    ELSE Nil

\* DeleteVM without --delete: the machine's files stay
DeleteArgs_Unregister(cfg) == <<"unregistervm", cfg.Name>>

\* func DeleteVM(c *VMConfig) error: the command it runs
DeleteArgs(cfg) == <<"unregistervm", cfg.Name, "--delete">>

\* StopVM asking the guest to shut down instead
StopArgs_Acpi(name) == <<"controlvm", name, "acpipowerbutton">>

\* func StopVM(name string) error: the command it runs
StopArgs(name) == <<"controlvm", name, "poweroff">>

\* VBoxHeadless("--startvm", c.Name)
HeadlessArgs(cfg) == <<"--startvm", cfg.Name>>

----------------------------------------------------------------------------
(* The provisioner: vmCreate and vmSetupNAT *)

CreateSteps ==
    <<"createvm", "registervm", "clonehd", "storagectl", "storageattach", "nic",
      "natpf", "hpet", "uart", "memory", "cpus">>

StepSet == { CreateSteps[k] : k \in 1..Len(CreateSteps) }

\* the argument vector of each VBoxManage call of vmCreate and vmSetupNAT;
\* j is the index of the NAT rule the range loop is at
CreateArgs(os, cfg, step, j) ==
    CASE step = "createvm" ->
           <<"createvm", "--name", cfg.Name, "--basefolder", cfg.Dir, "-ostype", "Linux26_64">>
      [] step = "registervm" ->
           <<"registervm", Join(os, <<cfg.Dir, cfg.Name, cfg.Name \o ".vbox">>)>>
      [] step = "clonehd" ->
           <<"clonehd", cfg.Image, storagePath(os, cfg)>>
      [] step = "storagectl" ->
           <<"storagectl", cfg.Name, "--name", "SATA", "--add", "sata", "--controller", "IntelAHCI">>
      [] step = "storageattach" ->
           <<"storageattach", cfg.Name, "--storagectl", "SATA", "--port", "0", "--type", "hdd",
             "--medium", storagePath(os, cfg)>>
      [] step = "nic" ->
           <<"modifyvm", cfg.Name, "--nic1", "nat", "--nictype1", "virtio">>
      [] step = "natpf" ->
           <<"modifyvm", cfg.Name, "--natpf1", natRule(cfg.NatRules[j])>>
      [] step = "hpet" ->
           <<"modifyvm", cfg.Name, "--hpet", "on">>
      [] step = "uart" ->
           <<"modifyvm", cfg.Name, "--uart1", "0x3f8", "4", "--uartmode1", "server", sockPath(os, cfg)>>
      [] step = "memory" ->
           <<"modifyvm", cfg.Name, "--memory", FormatInt(cfg.Memory)>>
      [] step = "cpus" ->
           <<"modifyvm", cfg.Name, "--cpus", FormatInt(cfg.Cpus)>>

\* vmSetupNAT dropping the error of VBoxManage
vmSetupNATNext_IgnoreError(cfg, j, e) ==
    IF j + 1 <= Len(cfg.NatRules) THEN "natpf" ELSE "hpet"

\* vmSetupNAT: where control goes once the command for rule j returned e, and
\* (with j = 0 and e = Nil) where the range loop starts
vmSetupNATNext(cfg, j, e) ==
    IF e # Nil THEN "created"
    ELSE IF j + 1 <= Len(cfg.NatRules) THEN "natpf"
    ELSE "hpet"

\* vmCreate attaching the disk before it is cloned
vmCreateNext_AttachFirst(cfg, step, j, e) ==
    IF step = "natpf" THEN vmSetupNATNext(cfg, j, e)
    ELSE IF e # Nil THEN "created"
    ELSE CASE step = "createvm" -> "registervm"
           [] step = "registervm" -> "storagectl"
           [] step = "storagectl" -> "storageattach"
           [] step = "storageattach" -> "clonehd"
           [] step = "clonehd" -> "nic"
           [] step = "nic" -> vmSetupNATNext(cfg, 0, Nil)
           [] step = "hpet" -> "uart"
           [] step = "uart" -> "memory"
           [] step = "memory" -> "cpus"
           [] step = "cpus" -> "created"

\* vmCreate: where control goes once the command of `step` returned e;
\* "created" is the return to LaunchVM, with e or with nil
vmCreateNext(cfg, step, j, e) ==
    IF step = "natpf" THEN vmSetupNATNext(cfg, j, e)
    ELSE IF e # Nil THEN "created"
    ELSE CASE step = "createvm" -> "registervm"
           [] step = "registervm" -> "clonehd"
           [] step = "clonehd" -> "storagectl"
           [] step = "storagectl" -> "storageattach"
           [] step = "storageattach" -> "nic"
           [] step = "nic" -> vmSetupNATNext(cfg, 0, Nil)
           [] step = "hpet" -> "uart"
           [] step = "uart" -> "memory"
           [] step = "memory" -> "cpus"
           [] step = "cpus" -> "created"

----------------------------------------------------------------------------
(* The branches of LaunchVM *)

\* LaunchVM without the deletion of a registered machine
AfterVmExists_NoDelete(e, exists) ==
    IF e # Nil THEN "fail" ELSE "createvm"

\* LaunchVM deleting whatever the inventory says
AfterVmExists_AlwaysDelete(e, exists) ==
    IF e # Nil THEN "fail" ELSE "DeleteVM"

\* LaunchVM taking a failed inventory query for "not registered"
AfterVmExists_IgnoreError(e, exists) ==
    IF exists THEN "DeleteVM" ELSE "createvm"

\* lines 65-74; "fail" is `return nil, err`
AfterVmExists(e, exists) ==
    IF e # Nil THEN "fail" ELSE IF exists THEN "DeleteVM" ELSE "createvm"

\* LaunchVM provisioning although the deletion failed
AfterDelete_IgnoreError(e) == "createvm"

\* lines 70-73
AfterDelete(e) == IF e # Nil THEN "fail" ELSE "createvm"

\* LaunchVM going on although vmCreate failed
AfterCreate_IgnoreError(e) == "VBoxHeadless"

\* lines 75-78
AfterCreate(e) == IF e # Nil THEN "fail" ELSE "VBoxHeadless"

\* LaunchVM connecting although VBoxHeadless could not be started
AfterHeadless_IgnoreError(e) == "loop"

\* lines 79-82
AfterHeadless(e) == IF e # Nil THEN "fail" ELSE "loop"

\* a retry loop without a bound: for {
LoopCond_Unbounded(i) == TRUE

\* the retry loop with i <= 5
LoopCond_OffByOne(i) == i <= MaxAttempts

\* line 85: i < 5
LoopCond(i) == i < MaxAttempts

\* a connection to a socket directly under Dir
ConnectPath_NoSubdir(os, cfg) == Join(os, <<cfg.Dir, cfg.Name \o ".sock">>)

\* line 86: the path handed to util.Connect
ConnectPath(os, cfg) == sockPath(os, cfg)

\* lines 87-90: break, or sleep and go round again
AfterConnect(e) == IF e = Nil THEN "check" ELSE "sleep"

\* a cleanup that stops the started process when the connection failed
ProcsAfterLoop_Kill(prs, e, handle) ==
    IF e # Nil
    THEN { IF pr.handle = handle THEN [pr EXCEPT !.state = "killed"] ELSE pr : pr \in prs }
    ELSE prs

\* lines 92-94: the return on a connection failure does nothing to the
\* process VBoxHeadless started
ProcsAfterLoop(prs, e, handle) == prs

\* lines 92-95
AfterLoop(e) == IF e # Nil THEN "fail" ELSE "go1"

\* a return that joins the copy goroutines first
ReturnReady_Joins(ts, id) == \A t \in ts : t.call = id => t.state = "exited"

\* line 97: return cmd, nil does not wait for the copy goroutines
ReturnReady(ts, id) == TRUE

\* lines 95-96: the two goroutines, in the order they are started
CopyTask(id, conn, k) ==
    IF k = 1
    THEN [call |-> id, conn |-> conn, src |-> "stdin", dst |-> "conn", state |-> "running"]
    ELSE [call |-> id, conn |-> conn, src |-> "conn", dst |-> "stdout", state |-> "running"]

----------------------------------------------------------------------------
(* State *)

\* no pure function applied
NoFn == [op |-> "none", rules |-> <<>>, lines |-> <<>>, done |-> FALSE,
         texts |-> <<>>, out |-> <<>>, err |-> Nil]

InitLoc == [id |-> 0, exists |-> FALSE, err |-> Nil, i |-> 0, j |-> 0,
            conn |-> NoConn, cmd |-> NoCmd]

Ret(handle, e) == [kind |-> "Ret", cmd |-> handle, err |-> e]

\* what the hypervisor may hold for a name before the first call
InitVMs(os, name) == {NoVM, BrokenVM(os, name), StaleVM(os, name)}

InitDisks(os, reg) ==
    { [path |-> reg[n].medium, image |-> "old"] :
        n \in { m \in Names : reg[m] # NoVM /\ reg[m].medium # "" } }

\* a machine registered before the first call may be running (handle 0 is
\* no handle of this program)
InitProcs(reg) ==
    SUBSET { [handle |-> NoCmd, name |-> n, state |-> "running"] :
               n \in { m \in Names : reg[m] # NoVM /\ reg[m].userdata } }

Init ==
    /\ goos \in {"linux", "windows"}
    /\ vms \in { reg \in [Names -> UNION { InitVMs(goos, n) : n \in Names }] :
                   \A n \in Names : reg[n] \in InitVMs(goos, n) }
    /\ disks = InitDisks(goos, vms)
    /\ procs \in InitProcs(vms)
    /\ tasks = {}
    /\ conns = {}
    /\ pc = [p \in Procs |-> "idle"]
    /\ op = [p \in Procs |-> "none"]
    /\ c = [p \in Procs |-> NoConfig]
    /\ loc = [p \in Procs |-> InitLoc]
    /\ log = [p \in Procs |-> <<>>]
    /\ ret = [p \in Procs |-> NoRet]
    /\ fn = NoFn

\* a failing return that hands out the command it has: `return cmd, err`
Goto_KeepHandle(p, target, e) ==
    IF target = "fail"
    THEN /\ pc' = [pc EXCEPT ![p] = "done"]
         /\ ret' = [ret EXCEPT ![p] = Ret(loc[p].cmd, e)]
    ELSE /\ pc' = [pc EXCEPT ![p] = target]
         /\ UNCHANGED ret

\* control of caller p moves to `target`; "fail" is `return nil, err`
Goto(p, target, e) ==
    IF target = "fail"
    THEN /\ pc' = [pc EXCEPT ![p] = "done"]
         /\ ret' = [ret EXCEPT ![p] = Ret(NoCmd, e)]
    ELSE /\ pc' = [pc EXCEPT ![p] = target]
         /\ UNCHANGED ret

\* caller p runs VBoxManage args and the environment makes `out` of it
Exec(p, args, out) ==
    /\ log' = [log EXCEPT ![p] = Append(@, Event("VBoxManage", args, out))]
    /\ vms' = IF out = "ok" THEN HvVms(goos, vms, disks, args) ELSE vms
    /\ disks' = IF out = "ok" THEN HvDisks(goos, vms, disks, args) ELSE disks
    /\ procs' = IF out = "ok" THEN HvProcs(procs, args) ELSE procs

----------------------------------------------------------------------------
(* LaunchVM, one step per external interaction *)

CallLaunchVM(p, cfg) ==
    /\ pc[p] = "idle"
    /\ op' = [op EXCEPT ![p] = "LaunchVM"]
    /\ c' = [c EXCEPT ![p] = cfg]
    /\ loc' = [loc EXCEPT ![p] = [InitLoc EXCEPT !.id = p]]
    /\ log' = [log EXCEPT ![p] = <<>>]
    /\ ret' = [ret EXCEPT ![p] = NoRet]
    /\ pc' = [pc EXCEPT ![p] = "vmExists"]
    /\ UNCHANGED <<fn, goos, vms, disks, procs, tasks, conns>>

\* the positions of lines 65-82: the query, the deletion and the provisioning
CheckThenCreate == {"vmExists", "DeleteVM", "created"} \cup StepSet

\* a LaunchVM that waits before its query while another call is between its
\* query and the end of its provisioning
MayEnter_Mutex(pcs, p) ==
    \A q \in DOMAIN pcs \ {p} : pcs[q] \notin CheckThenCreate \ {"vmExists"}

\* lines 64-65: LaunchVM goes to its query without taking a lock
MayEnter(pcs, p) == TRUE

\* exists, err := vmExists(c.Name)
VmExists(p) ==
    /\ pc[p] = "vmExists"
    /\ MayEnter(pc, p)
    /\ \E out \in Outcomes :
         LET e == ListError(out)
             ex == out = "ok" /\ vmExists(c[p].Name, ListOutput(vms))
         IN /\ log' = [log EXCEPT
                         ![p] = Append(@, Event("VBoxManage", <<"list", "vms">>, out))]
            /\ loc' = [loc EXCEPT ![p].exists = ex, ![p].err = e]
            /\ Goto(p, AfterVmExists(e, ex), e)
    /\ UNCHANGED <<fn, goos, vms, disks, procs, tasks, conns, op, c>>

\* err := DeleteVM(c)
LaunchDelete(p) ==
    /\ pc[p] = "DeleteVM"
    /\ \E out \in Outcomes :
         LET args == DeleteArgs(c[p])
             e == VBoxManage(args, out)
         IN /\ Exec(p, args, out)
            /\ Goto(p, AfterDelete(e), e)
    /\ UNCHANGED <<fn, goos, tasks, conns, op, c, loc>>

\* one VBoxManage call of vmCreate or vmSetupNAT
CreateStep(p, step) ==
    /\ pc[p] = step
    /\ \E out \in Outcomes :
         LET j == IF step = "natpf" THEN loc[p].j + 1 ELSE loc[p].j
             args == CreateArgs(goos, c[p], step, j)
             e == VBoxManage(args, out)
         IN /\ Exec(p, args, out)
            /\ loc' = [loc EXCEPT ![p].j = j, ![p].err = e]
            /\ pc' = [pc EXCEPT ![p] = vmCreateNext(c[p], step, j, e)]
    /\ UNCHANGED <<fn, goos, tasks, conns, op, c, ret>>

\* err = vmCreate(c); if err != nil { return nil, err }
Created(p) ==
    /\ pc[p] = "created"
    /\ Goto(p, AfterCreate(loc[p].err), loc[p].err)
    /\ UNCHANGED <<fn, goos, vms, disks, procs, tasks, conns, op, c, loc, log>>

\* cmd, err := VBoxHeadless("--startvm", c.Name): cmd.Start() only
Headless(p) ==
    /\ pc[p] = "VBoxHeadless"
    /\ \E out \in {"ok", "start"} :
         LET e == IF out = "ok" THEN Nil ELSE StartError("VBoxHeadless") IN
         /\ log' = [log EXCEPT
                      ![p] = Append(@, Event("VBoxHeadless", HeadlessArgs(c[p]), out))]
         /\ procs' = IF out = "ok"
                     THEN procs \cup {[handle |-> loc[p].id, name |-> HeadlessArgs(c[p])[2],
                                       state |-> "running"]}
                     ELSE procs
         /\ loc' = [loc EXCEPT ![p].cmd = loc[p].id, ![p].err = e]
         /\ Goto(p, AfterHeadless(e), e)
    /\ UNCHANGED <<fn, goos, vms, disks, tasks, conns, op, c>>

\* conn, err = util.Connect(c.sockPath())
Connect(p) ==
    /\ pc[p] = "loop"
    /\ LoopCond(loc[p].i)
    /\ \E ok \in BOOLEAN :
         LET e == IF ok THEN Nil ELSE ConnError(loc[p].i + 1) IN
         /\ log' = [log EXCEPT
                      ![p] = Append(@, Event("Connect", <<ConnectPath(goos, c[p])>>,
                                             IF ok THEN "ok" ELSE "fail"))]
         /\ conns' = IF ok THEN conns \cup {[id |-> loc[p].id, state |-> "open"]} ELSE conns
         /\ loc' = [loc EXCEPT ![p].conn = IF ok THEN loc[p].id ELSE NoConn, ![p].err = e]
         /\ pc' = [pc EXCEPT ![p] = AfterConnect(e)]
    /\ UNCHANGED <<fn, goos, vms, disks, procs, tasks, op, c, ret>>

\* time.Sleep(500 * time.Millisecond); i++
Sleep(p) ==
    /\ pc[p] = "sleep"
    /\ log' = [log EXCEPT ![p] = Append(@, Event("Sleep", <<FormatInt(SleepMs)>>, "ok"))]
    /\ loc' = [loc EXCEPT ![p].i = @ + 1]
    /\ pc' = [pc EXCEPT ![p] = "loop"]
    /\ UNCHANGED <<fn, goos, vms, disks, procs, tasks, conns, op, c, ret>>

\* the loop ends because i < 5 is false
LoopExit(p) ==
    /\ pc[p] = "loop"
    /\ ~LoopCond(loc[p].i)
    /\ pc' = [pc EXCEPT ![p] = "check"]
    /\ UNCHANGED <<fn, goos, vms, disks, procs, tasks, conns, op, c, loc, log, ret>>

\* if err != nil { return nil, err }
Check(p) ==
    /\ pc[p] = "check"
    /\ Goto(p, AfterLoop(loc[p].err), loc[p].err)
    /\ procs' = ProcsAfterLoop(procs, loc[p].err, loc[p].cmd)
    /\ UNCHANGED <<fn, goos, vms, disks, tasks, conns, op, c, loc, log>>

\* go io.Copy(conn, os.Stdin) and go io.Copy(os.Stdout, conn)
Go(p, k) ==
    /\ pc[p] = IF k = 1 THEN "go1" ELSE "go2"
    /\ tasks' = tasks \cup {CopyTask(loc[p].id, loc[p].conn, k)}
    /\ log' = [log EXCEPT
                 ![p] = Append(@, Event("go", <<CopyTask(loc[p].id, loc[p].conn, k).dst,
                                               CopyTask(loc[p].id, loc[p].conn, k).src>>, "ok"))]
    /\ pc' = [pc EXCEPT ![p] = IF k = 1 THEN "go2" ELSE "return"]
    /\ UNCHANGED <<fn, goos, vms, disks, procs, conns, op, c, loc, ret>>

\* return cmd, nil
Return(p) ==
    /\ pc[p] = "return"
    /\ ReturnReady(tasks, loc[p].id)
    /\ ret' = [ret EXCEPT ![p] = Ret(loc[p].cmd, Nil)]
    /\ pc' = [pc EXCEPT ![p] = "done"]
    /\ UNCHANGED <<fn, goos, vms, disks, procs, tasks, conns, op, c, loc, log>>

\* a copy goroutine ends, because its source closed or a write failed
TaskExit(t) ==
    /\ t \in tasks
    /\ t.state = "running"
    /\ tasks' = (tasks \ {t}) \cup {[t EXCEPT !.state = "exited"]}
    /\ UNCHANGED <<fn, goos, vms, disks, procs, conns, pc, op, c, loc, log, ret>>

----------------------------------------------------------------------------
(* StopVM and DeleteVM as public operations: one command each *)

Single(p, name, cfg, args) ==
    /\ pc[p] = "idle"
    /\ op' = [op EXCEPT ![p] = name]
    /\ c' = [c EXCEPT ![p] = cfg]
    /\ loc' = [loc EXCEPT ![p] = [InitLoc EXCEPT !.id = p]]
    /\ \E out \in Outcomes :
         /\ log' = [log EXCEPT ![p] = <<Event("VBoxManage", args, out)>>]
         /\ vms' = IF out = "ok" THEN HvVms(goos, vms, disks, args) ELSE vms
         /\ disks' = IF out = "ok" THEN HvDisks(goos, vms, disks, args) ELSE disks
         /\ procs' = IF out = "ok" THEN HvProcs(procs, args) ELSE procs
         /\ ret' = [ret EXCEPT ![p] = Ret(NoCmd, VBoxManage(args, out))]
    /\ pc' = [pc EXCEPT ![p] = "done"]
    /\ UNCHANGED <<fn, goos, tasks, conns>>

\* func StopVM(name string) error
StopVM(p, name) == Single(p, "StopVM", [Name |-> name], StopArgs(name))

\* func DeleteVM(c *VMConfig) error
DeleteVM(p, cfg) == Single(p, "DeleteVM", cfg, DeleteArgs(cfg))

----------------------------------------------------------------------------
(* Specifications *)

Step(p) ==
    \/ \E cfg \in VMConfig : CallLaunchVM(p, cfg)
    \/ VmExists(p)
    \/ LaunchDelete(p)
    \/ \E step \in StepSet : CreateStep(p, step)
    \/ Created(p)
    \/ Headless(p)
    \/ Connect(p)
    \/ Sleep(p)
    \/ LoopExit(p)
    \/ Check(p)
    \/ \E k \in 1..2 : Go(p, k)
    \/ Return(p)
    \/ \E name \in Names : StopVM(p, name)
    \/ \E cfg \in VMConfig : DeleteVM(p, cfg)

Next ==
    \/ \E p \in SeqProcs : Step(p)
    \/ \E t \in tasks : TaskExit(t)

\* one caller running one public operation, as one run of the capstan command does
Spec == Init /\ [][Next]_vars

\* the steps of a LaunchVM call that is under way
LaunchStep(p) ==
    \/ VmExists(p)
    \/ LaunchDelete(p)
    \/ \E step \in StepSet : CreateStep(p, step)
    \/ Created(p)
    \/ Headless(p)
    \/ Connect(p)
    \/ Sleep(p)
    \/ LoopExit(p)
    \/ Check(p)
    \/ \E k \in 1..2 : Go(p, k)
    \/ Return(p)

\* Spec when every external command, every connection attempt and every
\* sleep returns: a call under way keeps taking its steps
FairSpec == Spec /\ \A p \in SeqProcs : WF_vars(LaunchStep(p))

----------------------------------------------------------------------------
(* Two LaunchVM calls for one name at the same time *)

ConcConfigs == { cfg \in VMConfig : cfg.Name = "vm1" /\ cfg.NatRules = <<>> }

InitConc ==
    /\ Init
    /\ goos = "linux"
    /\ vms["vm2"] = NoVM
    /\ procs = {}

ConcStep(p) ==
    \/ \E cfg \in ConcConfigs : CallLaunchVM(p, cfg)
    \/ LaunchStep(p)

NextConc == \E p \in Procs : ConcStep(p)

\* two callers (two runs of the command, or two goroutines) each launching vm1
SpecConc == InitConc /\ [][NextConc]_vars

----------------------------------------------------------------------------
(* The pure functions on their own *)

\* longest line of a listing, in tokens
MaxLineLen == 4
\* most lines of a listing
MaxLines == 2

\* port texts: nat.Rule holds strings, nothing makes them numbers
PurePorts == {"", "80", "8080", "http", "8,0"}
\* the port texts that hold a comma themselves
CommaPorts == {"8,0"}
PureRules == [GuestPort : PurePorts, HostPort : PurePorts]

LineTokens == {Q, "a"}
PureLine == SeqsUpTo(LineTokens, MaxLineLen)
\* the lines '"vm1" {uuid}' and 'garbage line'
ExampleLines == <<ListLine("vm1"), <<"garbage", " ", "line">>>>
PureLines == SeqsUpTo(PureLine, MaxLines) \cup {ExampleLines}

PureConfig(rules) ==
    [Name |-> "vm1", Dir |-> "d", Image |-> "img", Memory |-> 512, Cpus |-> 2,
     NatRules |-> rules]

InitPure ==
    /\ goos = "linux"
    /\ vms = [n \in Names |-> NoVM]
    /\ disks = {}
    /\ procs = {}
    /\ tasks = {}
    /\ conns = {}
    /\ pc = [p \in Procs |-> "idle"]
    /\ op = [p \in Procs |-> "none"]
    /\ c = [p \in Procs |-> NoConfig]
    /\ loc = [p \in Procs |-> InitLoc]
    /\ log = [p \in Procs |-> <<>>]
    /\ ret = [p \in Procs |-> NoRet]
    /\ \/ \E rules \in SeqsUpTo(PureRules, MaxRules) :
              fn = [NoFn EXCEPT !.op = "vmSetupNAT", !.rules = rules]
       \/ \E lines \in PureLines :
              fn = [NoFn EXCEPT !.op = "vmList", !.lines = lines]

\* the body of vmSetupNAT's loop at every position of the list: the rule
\* text Sprintf produces and the fourth argument handed to VBoxManage
Translate ==
    /\ fn.op = "vmSetupNAT" /\ ~fn.done
    /\ fn' = [fn EXCEPT !.done = TRUE,
                        !.texts = [j \in 1..Len(fn.rules) |-> natRuleText(fn.rules[j])],
                        !.out = [j \in 1..Len(fn.rules) |->
                                   CreateArgs(goos, PureConfig(fn.rules), "natpf", j)[4]]]
    /\ UNCHANGED <<goos, vms, disks, procs, tasks, conns, pc, op, c, loc, log, ret>>

\* vmList on the lines of a listing the command printed: lines 119-128
Parse ==
    /\ fn.op = "vmList" /\ ~fn.done
    /\ fn' = [fn EXCEPT !.done = TRUE, !.out = vmList(fn.lines), !.err = Nil]
    /\ UNCHANGED <<goos, vms, disks, procs, tasks, conns, pc, op, c, loc, log, ret>>

NextPure == Translate \/ Parse

SpecPure == InitPure /\ [][NextPure]_vars

----------------------------------------------------------------------------
(* Reading a call's log *)

\* positions of the events of one kind
Events(p, kind) == { k \in 1..Len(log[p]) : log[p][k].kind = kind }

\* positions of the VBoxManage commands with subcommand sub
Cmds(p, sub) == { k \in Events(p, "VBoxManage") : log[p][k].args[1] = sub }

\* positions of the modifyvm commands setting `flag`
Mods(p, flag) == { k \in Cmds(p, "modifyvm") : log[p][k].args[3] = flag }

\* positions of the external commands that did not succeed
Failed(p) ==
    { k \in Events(p, "VBoxManage") \cup Events(p, "VBoxHeadless") : log[p][k].res # "ok" }

Launching(p) == op[p] = "LaunchVM"

\* positions of LaunchVM before vmCreate returned
BeforeCreated == {"idle", "vmExists", "DeleteVM", "created"} \cup StepSet

\* vmCreate returned nil to caller p
Provisioned(p) == Launching(p) /\ pc[p] \notin BeforeCreated

----------------------------------------------------------------------------
(* Claims *)

\* C1: when the inventory query of a LaunchVM call reported the name as
\* registered, the call issues unregistervm <name> --delete right after the
\* query, and every createvm it issues comes after that deletion has
\* completed successfully.
C1_DeleteBeforeProvision ==
    \A p \in Procs :
        (Launching(p) /\ loc[p].exists) =>
            /\ pc[p] # "DeleteVM" =>
                   /\ Len(log[p]) >= 2
                   /\ log[p][2] \in { Event("VBoxManage", <<"unregistervm", c[p].Name, "--delete">>, out) :
                                        out \in Outcomes }
            /\ \A k \in Cmds(p, "createvm") :
                   /\ k > 2
                   /\ log[p][2].res = "ok"

\* C1 witness: a registered name was deleted and createvm has been issued
C1_Witness ==
    \E p \in Procs :
        /\ Launching(p) /\ loc[p].exists
        /\ Cmds(p, "unregistervm") # {}
        /\ Cmds(p, "createvm") # {}

\* C2: when the inventory query reported the name as not registered, the call
\* issues no unregistervm; no provisioning command is ever repeated; and once
\* provisioning has gone through with every command succeeding, each
\* provisioning command has been issued exactly once, with one NAT command
\* per configured rule, after the single inventory query.
C2_AbsentProvisionOnce ==
    \A p \in Procs :
        (Launching(p) /\ pc[p] # "vmExists" /\ ~loc[p].exists) =>
            /\ Cmds(p, "unregistervm") = {}
            /\ Cardinality(Cmds(p, "list")) = 1
            /\ \A sub \in {"createvm", "registervm", "clonehd", "storagectl", "storageattach"} :
                   Cardinality(Cmds(p, sub)) <= 1
            /\ \A flag \in {"--nic1", "--hpet", "--uart1", "--memory", "--cpus"} :
                   Cardinality(Mods(p, flag)) <= 1
            /\ Cardinality(Mods(p, "--natpf1")) <= Len(c[p].NatRules)
            /\ (Provisioned(p) /\ Failed(p) = {}) =>
                   /\ \A sub \in {"createvm", "registervm", "clonehd", "storagectl", "storageattach"} :
                          Cardinality(Cmds(p, sub)) = 1
                   /\ \A flag \in {"--nic1", "--hpet", "--uart1", "--memory", "--cpus"} :
                          Cardinality(Mods(p, flag)) = 1
                   /\ Cardinality(Mods(p, "--natpf1")) = Len(c[p].NatRules)
                   /\ Cardinality(Events(p, "VBoxManage")) = 11 + Len(c[p].NatRules)

\* C2 witness: a launch of an absent name returned its handle with two NAT
\* rules configured
C2_Witness ==
    \E p \in Procs :
        /\ Launching(p) /\ pc[p] = "done" /\ ~loc[p].exists
        /\ ret[p].err = Nil /\ Failed(p) = {}
        /\ Len(c[p].NatRules) = 2

\* C3: LaunchVM makes at most 5 connection attempts and none after one that
\* succeeded; it returns its handle after exactly k attempts when the k-th
\* is the first to succeed, and it fails after exactly 5 attempts when none
\* succeeds.
C3_RetryBudget ==
    \A p \in Procs :
        Launching(p) =>
            LET att == Events(p, "Connect")
                okAtt == { k \in att : log[p][k].res = "ok" }
            IN /\ Cardinality(att) <= 5
               /\ \A k \in okAtt : \A m \in att : m <= k
               /\ (att # {} /\ okAtt = {} /\ Cardinality(att) < 5) => pc[p] \in {"loop", "sleep"}
               /\ (pc[p] = "done" /\ att # {}) =>
                      /\ ret[p].err = Nil <=> okAtt # {}
                      /\ ret[p].err # Nil <=> (okAtt = {} /\ Cardinality(att) = 5)

\* C3 witness: the socket accepted on the third attempt and the call returned
C3_Witness ==
    \E p \in Procs :
        /\ Launching(p) /\ pc[p] = "done" /\ ret[p].err = Nil
        /\ Cardinality(Events(p, "Connect")) = 3

\* C3 witness of the other case: the socket never accepted
C3_WitnessNever ==
    \E p \in Procs :
        /\ Launching(p) /\ pc[p] = "done" /\ ret[p].err # Nil
        /\ Cardinality(Events(p, "Connect")) = 5

\* C4 as claimed: a call whose 5 connection attempts all failed has slept
\* exactly 4 times when it returns, so no delay follows the last attempt.
C4_NoDelayAfterLastAttempt ==
    \A p \in Procs :
        (/\ Launching(p) /\ pc[p] = "done"
         /\ Cardinality(Events(p, "Connect")) = 5
         /\ \A k \in Events(p, "Connect") : log[p][k].res = "fail")
        => Cardinality(Events(p, "Sleep")) = 4

\* what the code does instead: every failed attempt, the last one too, is
\* followed by a delay
C4_DelayAfterEveryFailure ==
    \A p \in Procs :
        (Launching(p) /\ pc[p] \in {"loop", "check", "done"}) =>
            Cardinality(Events(p, "Sleep")) =
                Cardinality({ k \in Events(p, "Connect") : log[p][k].res = "fail" })

\* C5: when every connection attempt failed, LaunchVM returns a nil handle
\* and the error of the 5th attempt, has issued no command since it started
\* the VM process, has started no copy task, and the VM process is still
\* running.
C5_LastErrorAndLeak ==
    \A p \in Procs :
        (/\ Launching(p) /\ pc[p] = "done"
         /\ Events(p, "Connect") # {}
         /\ \A k \in Events(p, "Connect") : log[p][k].res = "fail")
        => /\ ret[p] = Ret(NoCmd, ConnError(5))
           /\ \A h \in Events(p, "VBoxHeadless") : \A k \in Events(p, "VBoxManage") : k < h
           /\ Cmds(p, "controlvm") = {}
           /\ [handle |-> p, name |-> c[p].Name, state |-> "running"] \in procs
           /\ { t \in tasks : t.call = p } = {}

\* C5 witness: a launch failed on the connection and left its VM running
C5_Witness ==
    \E p \in Procs :
        /\ Launching(p) /\ pc[p] = "done"
        /\ ret[p].err = ConnError(5)
        /\ \E pr \in procs : pr.handle = p /\ pr.state = "running"

\* positions of the commands of vmCreate and vmSetupNAT that did not succeed
FailedProvision(p) ==
    { k \in Failed(p) : log[p][k].kind = "VBoxManage"
                        /\ log[p][k].args[1] \notin {"list", "unregistervm", "controlvm"} }

\* the fail-fast part of C6: a failed provisioning step is the last thing
\* the call did, vmCreate returned, and after a failed NAT rule no timer,
\* serial-port, memory or CPU step and no further NAT rule was issued
C6_NoLaterStep(p) ==
    \A k \in FailedProvision(p) :
        /\ k = Len(log[p])
        /\ pc[p] \in {"created", "done"}
        /\ loc[p].err # Nil
        /\ k \in Mods(p, "--natpf1") =>
               /\ Mods(p, "--hpet") \cup Mods(p, "--uart1") = {}
               /\ Mods(p, "--memory") \cup Mods(p, "--cpus") = {}
               /\ \A m \in Mods(p, "--natpf1") : m <= k
               /\ Cardinality(Mods(p, "--natpf1")) <= Len(c[p].NatRules)

\* C6 as claimed: fail-fast, and the error returned for a failed NAT rule
\* always carries the argument vector of the failed command.
C6_ErrorAlwaysCarriesArgs ==
    \A p \in Procs :
        Launching(p) =>
            /\ C6_NoLaterStep(p)
            /\ \A k \in FailedProvision(p) \cap Mods(p, "--natpf1") :
                   /\ loc[p].err.kind = "Errorf"
                   /\ loc[p].err.args = log[p][k].args

\* C6 amended: fail-fast as claimed; the error the provisioner returns is the
\* error of the failed step, which carries the argument vector of the
\* command when the command ran and exited non-zero, and is the start error
\* of the executor, without arguments, when the command could not be started.
C6_FailFast ==
    \A p \in Procs :
        Launching(p) =>
            /\ C6_NoLaterStep(p)
            /\ \A k \in FailedProvision(p) :
                   /\ log[p][k].res = "exit" =>
                          loc[p].err = [kind |-> "Errorf", prog |-> "VBoxManage",
                                        args |-> log[p][k].args]
                   /\ log[p][k].res = "start" =>
                          loc[p].err = [kind |-> "StartError", prog |-> "VBoxManage"]

\* C6 witness: the first of two NAT rules exited non-zero and vmCreate
\* returned
C6_Witness ==
    \E p \in Procs :
        /\ Launching(p) /\ pc[p] = "created"
        /\ Len(c[p].NatRules) = 2
        /\ \E k \in Mods(p, "--natpf1") : log[p][k].res = "exit"
        /\ Cardinality(Mods(p, "--natpf1")) = 1

\* C7: once a provisioning step failed, LaunchVM does nothing more: the
\* failed command stays the last event of the call (no unregistervm, no
\* poweroff, no headless start, no connection attempt), no process, task or
\* connection of the call exists, the call returns a nil handle with that
\* step's error, and a machine the earlier steps registered is still
\* registered.
C7_NoRollback ==
    \A p \in Procs :
        Launching(p) =>
            \A k \in FailedProvision(p) :
                /\ k = Len(log[p])
                /\ pc[p] \in {"created", "done"}
                /\ pc[p] = "done" =>
                       ret[p] = Ret(NoCmd, VBoxManage(log[p][k].args, log[p][k].res))
                /\ ~ \E pr \in procs : pr.handle = p
                /\ ~ \E t \in tasks : t.call = p
                /\ ~ \E cn \in conns : cn.id = p
                /\ (\E r \in Cmds(p, "registervm") : log[p][r].res = "ok") =>
                       Usable(vms, c[p].Name)

\* C7 witness: the serial-port step failed, LaunchVM returned, and the
\* machine it created is registered
C7_Witness ==
    \E p \in Procs :
        /\ Launching(p) /\ pc[p] = "done"
        /\ \E k \in Mods(p, "--uart1") : log[p][k].res # "ok"
        /\ Usable(vms, c[p].Name)
        /\ ~ vms[c[p].Name].userdata

\* the machine a launch with config cfg is meant to leave behind
ExpectedVM(os, cfg) ==
    [kind |-> "VM",
     file |-> IF os = "windows"
              THEN cfg.Dir \o "\\" \o cfg.Name \o "\\" \o cfg.Name \o ".vbox"
              ELSE cfg.Dir \o "/" \o cfg.Name \o "/" \o cfg.Name \o ".vbox",
     registered |-> TRUE, ctl |-> TRUE,
     medium |-> IF os = "windows"
                THEN cfg.Dir \o "\\" \o cfg.Name \o "\\disk.vdi"
                ELSE cfg.Dir \o "/" \o cfg.Name \o "/disk.vdi",
     nic |-> "nat,virtio",
     natpf |-> [k \in 1..Len(cfg.NatRules) |->
                  "guest" \o cfg.NatRules[k].GuestPort \o ",tcp,,"
                  \o cfg.NatRules[k].HostPort \o ",," \o cfg.NatRules[k].GuestPort],
     hpet |-> "on",
     uart |-> IF os = "windows"
              THEN "\\\\.\\pipe\\" \o cfg.Name
              ELSE cfg.Dir \o "/" \o cfg.Name \o "/" \o cfg.Name \o ".sock",
     memory |-> "512", cpus |-> "2", userdata |-> FALSE]

TasksOf(p) == { t \in tasks : t.call = p }

\* C9: copy tasks exist only after a connection attempt of the call
\* succeeded; a successful LaunchVM has started exactly two of them, stdin
\* to the connection and the connection to stdout, and returns the handle of
\* the process it started; the return is possible whatever the tasks do and
\* its result does not depend on them; the connection is never closed.
C9_DetachedCopyTasks ==
    \A p \in Procs :
        Launching(p) =>
            /\ TasksOf(p) # {} =>
                   \E k \in Events(p, "Connect") :
                       /\ log[p][k].res = "ok"
                       /\ \A g \in Events(p, "go") : k < g
            /\ Cardinality(Events(p, "go")) = Cardinality(TasksOf(p))
            /\ pc[p] = "return" => ENABLED Return(p)
            /\ (pc[p] = "done" /\ ret[p].err = Nil) =>
                   /\ ret[p].cmd = p
                   /\ [handle |-> p, name |-> c[p].Name, state |-> "running"] \in procs
                   /\ { [src |-> t.src, dst |-> t.dst, conn |-> t.conn] : t \in TasksOf(p) }
                          = { [src |-> "stdin", dst |-> "conn", conn |-> p],
                              [src |-> "conn", dst |-> "stdout", conn |-> p] }
            /\ (pc[p] = "done" /\ ret[p].err # Nil) => TasksOf(p) = {}
            /\ \A cn \in conns : cn.id = p => cn.state = "open"

\* C9 witness: LaunchVM is about to return its handle while both copy tasks are
\* still running
C9_Witness ==
    \E p \in Procs :
        /\ Launching(p) /\ pc[p] = "return"
        /\ Cardinality({ t \in TasksOf(p) : t.state = "running" }) = 2

\* C10: StopVM issues the single command controlvm <name> poweroff and
\* DeleteVM the single command unregistervm <Name> --delete; the call's log
\* holds nothing else, and the call returns nil when the command succeeded
\* and the executor's error for that command otherwise.
C10_SingleCommand ==
    \A p \in Procs :
        (op[p] \in {"StopVM", "DeleteVM"} /\ pc[p] = "done") =>
            /\ Len(log[p]) = 1
            /\ log[p][1].kind = "VBoxManage"
            /\ op[p] = "StopVM" => log[p][1].args = <<"controlvm", c[p].Name, "poweroff">>
            /\ op[p] = "DeleteVM" => log[p][1].args = <<"unregistervm", c[p].Name, "--delete">>
            /\ ret[p].cmd = NoCmd
            /\ log[p][1].res = "ok" => ret[p].err = Nil
            /\ log[p][1].res = "start" =>
                   ret[p].err = [kind |-> "StartError", prog |-> "VBoxManage"]
            /\ log[p][1].res = "exit" =>
                   ret[p].err = [kind |-> "Errorf", prog |-> "VBoxManage",
                                 args |-> log[p][1].args]

\* C10 witness: StopVM powered off a running machine and returned nil
C10_Witness ==
    \E p \in Procs :
        /\ op[p] = "StopVM" /\ pc[p] = "done" /\ ret[p].err = Nil
        /\ \E pr \in procs : pr.name = c[p].Name /\ pr.state = "off"

\* the provisioning commands of a config as the documented order has them,
\* each reduced to its subcommand, the option it sets and, for a NAT rule,
\* the rule
ExpectedOrder(cfg) ==
    << <<"createvm">>, <<"registervm">>, <<"clonehd">>, <<"storagectl">>,
       <<"storageattach">>, <<"modifyvm", "--nic1">> >>
    \o [k \in 1..Len(cfg.NatRules) |->
          <<"modifyvm", "--natpf1",
            "guest" \o cfg.NatRules[k].GuestPort \o ",tcp,," \o cfg.NatRules[k].HostPort
            \o ",," \o cfg.NatRules[k].GuestPort>>]
    \o << <<"modifyvm", "--hpet">>, <<"modifyvm", "--uart1">>,
          <<"modifyvm", "--memory">>, <<"modifyvm", "--cpus">> >>

\* a logged command reduced the same way
Label(e) ==
    IF e.args[1] # "modifyvm" THEN <<e.args[1]>>
    ELSE IF e.args[3] = "--natpf1" THEN <<"modifyvm", "--natpf1", e.args[4]>>
    ELSE <<"modifyvm", e.args[3]>>

\* positions of the commands of vmCreate and vmSetupNAT in caller p's log
ProvisionCmds(p) ==
    { k \in Events(p, "VBoxManage") :
        log[p][k].args[1] \notin {"list", "unregistervm", "controlvm"} }

\* C11: the provisioning commands a call has issued are, in order, the first
\* commands of createvm, registervm, clonehd, storagectl, storageattach,
\* modifyvm nic1, one modifyvm natpf1 per rule in list order, modifyvm hpet,
\* uart, memory, cpus; they are consecutive in the log, the disk is attached
\* from the path it was cloned to, and once vmCreate returned nil all of them
\* have been issued.
C11_ProvisioningOrder ==
    \A p \in Procs :
        (Launching(p) /\ ProvisionCmds(p) # {}) =>
            LET first == Min(ProvisionCmds(p))
                n == Cardinality(ProvisionCmds(p))
            IN /\ ProvisionCmds(p) = first..(first + n - 1)
               /\ n <= Len(ExpectedOrder(c[p]))
               /\ \A k \in 1..n : Label(log[p][first + k - 1]) = ExpectedOrder(c[p])[k]
               /\ \A a \in Cmds(p, "storageattach") : \E d \in Cmds(p, "clonehd") :
                      d < a /\ log[p][d].args[3] = log[p][a].args[10]
               /\ \A r \in Mods(p, "--natpf1") : \E m \in Mods(p, "--nic1") : m < r
               /\ Provisioned(p) /\ Failed(p) = {} => n = Len(ExpectedOrder(c[p]))

\* C11 witness: provisioning went through with two different NAT rules
C11_Witness ==
    \E p \in Procs :
        /\ Provisioned(p) /\ Failed(p) = {}
        /\ Len(c[p].NatRules) = 2
        /\ c[p].NatRules[1] # c[p].NatRules[2]

\* C11 witness of the empty rule list: the timer step followed the adapter
\* step directly
C11_WitnessNoRules ==
    \E p \in Procs :
        /\ Launching(p) /\ c[p].NatRules = <<>>
        /\ \E m \in Mods(p, "--nic1") : m + 1 \in Mods(p, "--hpet")

\* C12: VBoxHeadless is started at most once and only when every
\* provisioning command, the CPU step included, has been issued before it and
\* succeeded; every connection attempt comes after a successful start of
\* VBoxHeadless; copy tasks come after a successful connection.
C12_StartBeforeConnect ==
    \A p \in Procs :
        Launching(p) =>
            /\ Cardinality(Events(p, "VBoxHeadless")) <= 1
            /\ \A h \in Events(p, "VBoxHeadless") :
                   /\ \A k \in ProvisionCmds(p) : k < h /\ log[p][k].res = "ok"
                   /\ Cardinality(ProvisionCmds(p)) = 10 + Len(c[p].NatRules)
                   /\ h - 1 \in Mods(p, "--cpus")
            /\ \A k \in Events(p, "Connect") :
                   \E h \in Events(p, "VBoxHeadless") : h < k /\ log[p][h].res = "ok"
            /\ \A g \in Events(p, "go") :
                   \E k \in Events(p, "Connect") : k < g /\ log[p][k].res = "ok"

\* C12 witness: a first connection attempt was made after the start
C12_Witness ==
    \E p \in Procs :
        /\ Launching(p)
        /\ Cardinality(Events(p, "Connect")) = 1
        /\ \E pr \in procs : pr.handle = p /\ pr.state = "running"

\* C13: every connection attempt of a launch uses the path that the uart
\* step of the same launch gave as the serial port's socket, and the config
\* is the one the launch was called with.
C13_SamePath ==
    \A p \in Procs :
        Launching(p) =>
            \A k \in Events(p, "Connect") :
                /\ Mods(p, "--uart1") # {}
                /\ \A u \in Mods(p, "--uart1") :
                       /\ u < k
                       /\ log[p][k].args = <<log[p][u].args[8]>>
                /\ c[p] \in VMConfig

\* C13 witness: a second attempt was made on a build that uses named pipes
C13_Witness ==
    \E p \in Procs :
        /\ Launching(p) /\ goos = "windows"
        /\ Cardinality(Events(p, "Connect")) = 2

\* C14: when the inventory query failed, it is the only thing the call did:
\* LaunchVM returned a nil handle and the query's error, vmExists did not
\* report "registered" or "absent" with a nil error, and no unregistervm,
\* provisioning command, headless start or connection attempt was issued.
C14_InventoryFailure ==
    \A p \in Procs :
        (Launching(p) /\ Len(log[p]) >= 1 /\ log[p][1].res # "ok") =>
            /\ log[p] = <<Event("VBoxManage", <<"list", "vms">>, log[p][1].res)>>
            /\ pc[p] = "done"
            /\ loc[p].err # Nil
            /\ ~loc[p].exists
            /\ log[p][1].res = "start" =>
                   ret[p] = Ret(NoCmd, [kind |-> "StartError", prog |-> "VBoxManage"])
            /\ log[p][1].res = "exit" =>
                   ret[p] = Ret(NoCmd, [kind |-> "ExitError", prog |-> "VBoxManage"])
            /\ ~ \E pr \in procs : pr.handle = p

\* C14 witness: the query exited non-zero while the name was registered
C14_Witness ==
    \E p \in Procs :
        /\ Launching(p) /\ pc[p] = "done"
        /\ log[p][1].res = "exit"
        /\ Usable(vms, c[p].Name)

\* the fields of a rule text: the texts between its commas
RECURSIVE FieldsFrom(_, _, _)
FieldsFrom(pieces, k, cur) ==
    IF k > Len(pieces) THEN <<cur>>
    ELSE IF pieces[k] = "," THEN <<cur>> \o FieldsFrom(pieces, k + 1, "")
    ELSE FieldsFrom(pieces, k + 1, cur \o pieces[k])

Fields(pieces) == FieldsFrom(pieces, 1, "")

\* C15: the rule text handed to VBoxManage for the rule at position j is
\* guest<G>,tcp,,<H>,,<G> whatever G and H are and whatever the position is;
\* equal rules give equal texts; and when no port text holds a comma the
\* text has six fields: the name guest<G>, tcp, an empty host address, H,
\* an empty guest address, G.
C15_NatRulePure ==
    (fn.op = "vmSetupNAT" /\ fn.done) =>
        /\ Len(fn.out) = Len(fn.rules)
        /\ \A j \in 1..Len(fn.rules) :
               LET G == fn.rules[j].GuestPort
                   H == fn.rules[j].HostPort
               IN /\ fn.out[j] = "guest" \o G \o ",tcp,," \o H \o ",," \o G
                  /\ fn.out[j] = Str(fn.texts[j])
                  /\ (G \notin CommaPorts /\ H \notin CommaPorts) =>
                         Fields(fn.texts[j]) = <<"guest" \o G, "tcp", "", H, "", G>>
        /\ \A i, j \in 1..Len(fn.rules) :
               fn.rules[i] = fn.rules[j] => fn.out[i] = fn.out[j]

\* C15 witness: one rule with a port text that is no number, translated at
\* two positions of the list
C15_Witness ==
    /\ fn.op = "vmSetupNAT" /\ fn.done
    /\ Len(fn.rules) = 2
    /\ fn.rules[1] = fn.rules[2]
    /\ fn.rules[1] = [GuestPort |-> "http", HostPort |-> "8080"]
    /\ fn.out = <<"guesthttp,tcp,,8080,,http", "guesthttp,tcp,,8080,,http">>

\* the lines of a listing that hold two double quotes or more
Matching(lines) == { k \in 1..Len(lines) : Cardinality(QuotePositions(lines[k])) >= 2 }

\* the k-th smallest member of a set of numbers
Nth(S, k) == CHOOSE x \in S : Cardinality({ y \in S : y < x }) = k - 1

\* the text of the first double-quoted token of a line
FirstToken(line) ==
    LET i == Min(QuotePositions(line))
        j == Min(QuotePositions(line) \ {i})
    IN Concat(line, i + 1, j - 1)

\* the text between the first and the last double quote of a line
Between(line) ==
    Concat(line, Min(QuotePositions(line)) + 1, Max(QuotePositions(line)) - 1)

\* C16 as stated: the names are the texts of the double-quoted tokens, one
\* per line that has one, in line order
C16_TokenText ==
    (fn.op = "vmList" /\ fn.done) =>
        /\ Len(fn.out) = Cardinality(Matching(fn.lines))
        /\ \A k \in 1..Len(fn.out) :
               fn.out[k] = FirstToken(fn.lines[Nth(Matching(fn.lines), k)])
        /\ fn.err = Nil

\* C16: vmList returns, in line order, one name for each line that holds at
\* least two double quotes, the text between the first and the last double
\* quote of the line, and nothing for any other line, never an error for a
\* skipped line; for a line with exactly two double quotes the name is the
\* text of the quoted token, and the lines "vm1" {uuid} and garbage line
\* give vm1 alone.
C16_InventoryParsing ==
    (fn.op = "vmList" /\ fn.done) =>
        /\ Len(fn.out) = Cardinality(Matching(fn.lines))
        /\ \A k \in 1..Len(fn.out) :
               LET line == fn.lines[Nth(Matching(fn.lines), k)]
               IN /\ fn.out[k] = Between(line)
                  /\ Cardinality(QuotePositions(line)) = 2 => fn.out[k] = FirstToken(line)
        /\ fn.err = Nil
        /\ fn.lines = ExampleLines => fn.out = <<"vm1">>

\* C16 witness: a line without a quoted token was skipped and a line with a
\* quoted token followed by a further double quote gave a name
C16_Witness ==
    /\ fn.op = "vmList" /\ fn.done
    /\ fn.lines = << <<"a">>, <<Q, "a", Q, Q>> >>
    /\ fn.out = << "a" \o Q >>

\* C16 witness: the lines "vm1" {uuid} and garbage line were parsed
C16_WitnessExample ==
    /\ fn.op = "vmList" /\ fn.done
    /\ fn.lines = ExampleLines
    /\ fn.out = <<"vm1">>

\* C17: nothing in LaunchVM waits for another LaunchVM: with two callers
\* launching the same name, a call that is anywhere in its query, deletion
\* and provisioning can take its next step wherever the other call is, and
\* a caller that has made no call can make one.
C17_NoLock ==
    \A p \in Procs :
        /\ pc[p] = "idle" => ENABLED (\E cfg \in ConcConfigs : CallLaunchVM(p, cfg))
        /\ pc[p] = "vmExists" => ENABLED VmExists(p)
        /\ pc[p] \in CheckThenCreate => ENABLED LaunchStep(p)

\* C17 witness: both calls saw vm1 absent, both issued createvm for vm1 and
\* neither has left its provisioning
C17_Witness ==
    /\ \A p \in Procs :
           /\ Launching(p) /\ c[p].Name = "vm1"
           /\ Len(log[p]) >= 1
           /\ log[p][1].res = "ok" /\ ~loc[p].exists
           /\ Cmds(p, "unregistervm") = {}
           /\ \E k \in Cmds(p, "createvm") : log[p][k].args[3] = "vm1"
    /\ \A p \in Procs : pc[p] \in CheckThenCreate \ {"vmExists"}

\* C17 witness: call 1 saw vm1 absent, provisioned it and started it; call 2
\* then saw it registered and its unregistervm deleted it
C17_WitnessDelete ==
    /\ \A p \in Procs : Launching(p) /\ c[p].Name = "vm1"
    /\ ~loc[1].exists /\ Provisioned(1) /\ Failed(1) = {}
    /\ \E pr \in procs : pr.handle = 1
    /\ pc[1] # "done"
    /\ loc[2].exists
    /\ Len(log[2]) = 2 /\ Cmds(2, "unregistervm") = {2} /\ log[2][2].res = "ok"
    /\ vms["vm1"] = NoVM

\* C18: a finished LaunchVM returned a handle exactly when it returned a nil
\* error; when it returned an error no copy task of the call exists; and
\* when VBoxHeadless could not be started no connection attempt was made.
C18_HandleIffNoError ==
    \A p \in Procs :
        (Launching(p) /\ pc[p] = "done") =>
            /\ ret[p].cmd # NoCmd <=> ret[p].err = Nil
            /\ ret[p].err # Nil => TasksOf(p) = {}
            /\ ret[p].err = Nil => ret[p].cmd = loc[p].cmd
            /\ (\E h \in Events(p, "VBoxHeadless") : log[p][h].res # "ok") =>
                   /\ Events(p, "Connect") = {}
                   /\ ret[p] = Ret(NoCmd, [kind |-> "StartError", prog |-> "VBoxHeadless"])

\* C18 witness: VBoxHeadless could not be started and LaunchVM returned
C18_Witness ==
    \E p \in Procs :
        /\ Launching(p) /\ pc[p] = "done"
        /\ \E h \in Events(p, "VBoxHeadless") : log[p][h].res = "start"

\* C19: when the deletion of a registered same-named machine failed, the
\* query and the deletion are all the call did: LaunchVM returned a nil
\* handle and the deletion's error, and the machine is still registered as
\* it was, with its disk.
C19_DeleteFailure ==
    \A p \in Procs :
        (Launching(p) /\ \E d \in Cmds(p, "unregistervm") : log[p][d].res # "ok") =>
            /\ Len(log[p]) = 2
            /\ Cmds(p, "unregistervm") = {2}
            /\ pc[p] = "done"
            /\ log[p][2].res = "start" =>
                   ret[p] = Ret(NoCmd, [kind |-> "StartError", prog |-> "VBoxManage"])
            /\ log[p][2].res = "exit" =>
                   ret[p] = Ret(NoCmd, [kind |-> "Errorf", prog |-> "VBoxManage",
                                        args |-> <<"unregistervm", c[p].Name, "--delete">>])
            /\ vms[c[p].Name] \in {BrokenVM(goos, c[p].Name), StaleVM(goos, c[p].Name)}
            /\ vms[c[p].Name].medium # "" =>
                   \E dk \in disks : dk.path = vms[c[p].Name].medium /\ dk.image = "old"
            /\ ~ \E pr \in procs : pr.handle = p

\* C19 witness: the deletion of a configured machine exited non-zero
C19_Witness ==
    \E p \in Procs :
        /\ Launching(p) /\ pc[p] = "done"
        /\ \E d \in Cmds(p, "unregistervm") : log[p][d].res = "exit"
        /\ vms[c[p].Name].userdata

\* how far a position of LaunchVM is from the return
Rank(pos) ==
    CASE pos = "vmExists" -> 20 [] pos = "DeleteVM" -> 19 [] pos = "createvm" -> 18
      [] pos = "registervm" -> 17 [] pos = "clonehd" -> 16 [] pos = "storagectl" -> 15
      [] pos = "storageattach" -> 14 [] pos = "nic" -> 13 [] pos = "natpf" -> 12
      [] pos = "hpet" -> 11 [] pos = "uart" -> 10 [] pos = "memory" -> 9
      [] pos = "cpus" -> 8 [] pos = "created" -> 7 [] pos = "VBoxHeadless" -> 6
      [] pos = "loop" -> 5 [] pos = "sleep" -> 5 [] pos = "check" -> 4
      [] pos = "go1" -> 3 [] pos = "go2" -> 2 [] pos = "return" -> 1
      [] OTHER -> 0

\* a bound on the steps caller p's LaunchVM has left: the position, then the
\* NAT rules still to apply, then the connection attempts and sleeps left
Variant(p) ==
    100 * Rank(pc[p])
    + (IF pc[p] = "natpf" THEN Len(c[p].NatRules) - loc[p].j ELSE 0)
    + (IF pc[p] = "loop" THEN 2 * (MaxAttempts - loc[p].i) + 1 ELSE 0)
    + (IF pc[p] = "sleep" THEN 2 * (MaxAttempts - loc[p].i) ELSE 0)

\* C20: a LaunchVM call under way can always take its next step (it waits
\* for nothing but the command, connection attempt or sleep it is in, and
\* never for a copy task); every step lowers a non-negative bound on the
\* steps left, in which the retry loop counts for at most 5 rounds; and the
\* call never does more than the one query, one deletion, the provisioning
\* commands, one start, 5 attempts with their sleeps and two goroutine
\* starts.  So a call whose steps all return does return.
C20_Terminates ==
    /\ [](\A p \in Procs :
              (Launching(p) /\ pc[p] # "done") =>
                  /\ ENABLED LaunchStep(p)
                  /\ Variant(p) > 0)
    /\ [](\A p \in Procs :
              Launching(p) => /\ Len(log[p]) <= 25 + Len(c[p].NatRules)
                              /\ Variant(p) >= 0)
    /\ [][\A p \in Procs : LaunchStep(p) => Variant(p)' < Variant(p)]_vars

\* C20 stated with fairness: under FairSpec a call that was made returns
C20_EventuallyReturns ==
    \A p \in SeqProcs : (Launching(p) ~> pc[p] = "done")

\* C20 witness: a call that used up all its connection attempts returned
C20_Witness ==
    \E p \in Procs :
        /\ Launching(p) /\ pc[p] = "done" /\ ret[p] # NoRet
        /\ loc[p].i = 5
        /\ loc[p].exists

====
